---- MODULE Spec2Model ----
(***************************************************************************)
(* A model of iso8601.py: parse(date, now) turns an ISO 8601 string into a *)
(* timezone-aware datetime.  Strings are sequences of one-character        *)
(* strings; a regular-expression group that did not take part in a match   *)
(* (Python's None) is the empty sequence, which no group can capture.      *)
(***************************************************************************)
EXTENDS Integers, Sequences, FiniteSets, TLC

VARIABLES date, now, pc, remaining, matches, result

vars == <<date, now, pc, remaining, matches, result>>

None == <<>>

----------------------------------------------------------------------------
(* Characters, int() and str()                                             *)

DigitChars == <<"0", "1", "2", "3", "4", "5", "6", "7", "8", "9">>

Digits == {DigitChars[k] : k \in 1..10}

DigitVal(c) == (CHOOSE k \in 1..10 : DigitChars[k] = c) - 1

\* int(s) of a string of decimal digits
RECURSIVE int(_)
int(s) == IF s = <<>> THEN 0
          ELSE 10 * int(SubSeq(s, 1, Len(s) - 1)) + DigitVal(s[Len(s)])

RECURSIVE StrNat(_)
StrNat(n) == IF n < 10 THEN <<DigitChars[n + 1]>>
             ELSE StrNat(n \div 10) \o <<DigitChars[(n % 10) + 1]>>

\* str(n) of an integer: no padding, a leading "-" when negative
Str(n) == IF n < 0 THEN <<"-">> \o StrNat(-n) ELSE StrNat(n)

\* s[i] is the character c
Lit(s, i, c) == i <= Len(s) /\ s[i] = c

\* s[i .. i+k-1] are k digits: \d{k}
Dig(s, i, k) == i + k - 1 <= Len(s) /\ \A j \in i..(i + k - 1) : s[j] \in Digits

\* the length of the longest run of digits of s that starts at i
DigitRun(s, i) ==
    LET stops == {k \in i..(Len(s) + 1) : k = Len(s) + 1 \/ s[k] \notin Digits}
    IN  (CHOOSE k \in stops : \A l \in stops : k <= l) - i

----------------------------------------------------------------------------
(* The grammar components.  Each gives, for a string s and a position i,   *)
(* the set of ways the component can match from i: the position after the  *)
(* match and the groups it captured.                                       *)

NoDate == [date |-> None, year |-> None, month |-> None, day |-> None,
           day_ord |-> None, week |-> None, week_day |-> None]

NoTime == [time |-> None, hour |-> None, min |-> None, sec |-> None,
           sub_sec |-> None]

NoTz == [tz |-> None, tz_direction |-> None, tz_hour |-> None, tz_min |-> None]

NoTzGlob == [tz |-> None, direction |-> None, hour |-> None, min |-> None]

\* a date written with the separator sep ("-" extended, "" basic); w is the
\* separator's width
DateAlternatives(s, i, sep, w) ==
    LET Sep(j) == w = 0 \/ Lit(s, j, sep)
        j == i + 4
        Done(g, n) == [end |-> n, g |-> [g EXCEPT !.date = SubSeq(s, i, n - 1)]]
        y == [NoDate EXCEPT !.year = SubSeq(s, i, i + 3)]
    IN  IF ~Dig(s, i, 4) THEN {}
        ELSE {Done(y, j)}
             \cup  \* month-day
             (IF Sep(j) /\ Dig(s, j + w, 2)
              THEN LET ym == [y EXCEPT !.month = SubSeq(s, j + w, j + w + 1)]
                       k == j + w + 2
                   IN  {Done(ym, k)}
                       \cup (IF Sep(k) /\ Dig(s, k + w, 2)
                             THEN {Done([ym EXCEPT
                                          !.day = SubSeq(s, k + w, k + w + 1)],
                                        k + w + 2)}
                             ELSE {})
              ELSE {})
             \cup  \* ordinal day
             (IF Sep(j) /\ Dig(s, j + w, 3)
              THEN {Done([y EXCEPT !.day_ord = SubSeq(s, j + w, j + w + 2)],
                         j + w + 3)}
              ELSE {})
             \cup  \* week-day
             (IF Sep(j) /\ Lit(s, j + w, "W") /\ Dig(s, j + w + 1, 2)
              THEN LET yw == [y EXCEPT !.week = SubSeq(s, j + w + 1, j + w + 2)]
                       k == j + w + 3
                   IN  {Done(yw, k)}
                       \cup (IF Sep(k) /\ Dig(s, k + w, 1)
                             THEN {Done([yw EXCEPT !.week_day = <<s[k + w]>>],
                                        k + w + 1)}
                             ELSE {})
              ELSE {})

iso_date_extended(s, i) == DateAlternatives(s, i, "-", 1)

iso_date(s, i) == DateAlternatives(s, i, "", 0)

\* a timezone: Z, or a sign, two digits and optionally two more digits, which
\* a colon precedes when colon = "must", may precede when colon = "may" and
\* does not precede when colon = "no"; the keys are the group names
TzAlternatives(s, i, colon, kDir, kHour, kMin) ==
    LET Rec(n, d, h, m) ==
            [end |-> n,
             g |-> ("tz" :> SubSeq(s, i, n - 1)) @@ (kDir :> d)
                   @@ (kHour :> h) @@ (kMin :> m)]
        j == i + 3
        h == SubSeq(s, i + 1, i + 2)
    IN  (IF Lit(s, i, "Z") THEN {Rec(i + 1, None, None, None)} ELSE {})
        \cup
        (IF (Lit(s, i, "+") \/ Lit(s, i, "-")) /\ Dig(s, i + 1, 2)
         THEN {Rec(j, <<s[i]>>, h, None)}
              \cup (IF colon \in {"no", "may"} /\ Dig(s, j, 2)
                    THEN {Rec(j + 2, <<s[i]>>, h, SubSeq(s, j, j + 1))}
                    ELSE {})
              \cup (IF colon \in {"must", "may"} /\ Lit(s, j, ":")
                       /\ Dig(s, j + 1, 2)
                    THEN {Rec(j + 3, <<s[i]>>, h, SubSeq(s, j + 1, j + 2))}
                    ELSE {})
         ELSE {})

iso_tz_glob(s, i) == TzAlternatives(s, i, "may", "direction", "hour", "min")

iso_tz_extended(s, i) ==
    TzAlternatives(s, i, "must", "tz_direction", "tz_hour", "tz_min")

iso_tz(s, i) == TzAlternatives(s, i, "no", "tz_direction", "tz_hour", "tz_min")

\* a time: the sub-second digits \d+ are the whole run of digits, since what
\* may follow them (a timezone, the end) never starts with a digit
iso_time_extended(s, i) ==
    LET Done(g, n) == [end |-> n, g |-> [g EXCEPT !.time = SubSeq(s, i, n - 1)]]
        h == [NoTime EXCEPT !.hour = SubSeq(s, i, i + 1)]
        hm == [h EXCEPT !.min = SubSeq(s, i + 3, i + 4)]
        hms == [hm EXCEPT !.sec = SubSeq(s, i + 6, i + 7)]
        run == DigitRun(s, i + 9)
    IN  IF ~Dig(s, i, 2) THEN {}
        ELSE {Done(h, i + 2)}
             \cup
             (IF Lit(s, i + 2, ":") /\ Dig(s, i + 3, 2)
              THEN {Done(hm, i + 5)}
                   \cup
                   (IF Lit(s, i + 5, ":") /\ Dig(s, i + 6, 2)
                    THEN {Done(hms, i + 8)}
                         \cup
                         (IF (Lit(s, i + 8, ",") \/ Lit(s, i + 8, "."))
                             /\ Dig(s, i + 9, 1)
                          THEN {Done([hms EXCEPT !.sub_sec =
                                        SubSeq(s, i + 9, i + 8 + run)],
                                     i + 9 + run)}
                          ELSE {})
                    ELSE {})
              ELSE {})

iso_time(s, i) ==
    LET Done(g, n) == [end |-> n, g |-> [g EXCEPT !.time = SubSeq(s, i, n - 1)]]
        h == [NoTime EXCEPT !.hour = SubSeq(s, i, i + 1)]
        hm == [h EXCEPT !.min = SubSeq(s, i + 2, i + 3)]
        hms == [hm EXCEPT !.sec = SubSeq(s, i + 4, i + 5)]
        run == DigitRun(s, i + 6)
    IN  IF ~Dig(s, i, 2) THEN {}
        ELSE {Done(h, i + 2)}
             \cup
             (IF Dig(s, i + 2, 2)
              THEN {Done(hm, i + 4)}
                   \cup
                   (IF Dig(s, i + 4, 2)
                    THEN {Done(hms, i + 6)}
                         \cup
                         (IF Dig(s, i + 6, 1)
                          THEN {Done([hms EXCEPT !.sub_sec =
                                        SubSeq(s, i + 6, i + 5 + run)],
                                     i + 6 + run)}
                          ELSE {})
                    ELSE {})
              ELSE {})

----------------------------------------------------------------------------
(* The five anchored patterns.  Each gives the set of group dictionaries   *)
(* with which the whole of s matches; the set has at most one element.     *)

\* the components of the extended patterns, or of the basic ones
DateComponent(ext, s, i) == IF ext THEN iso_date_extended(s, i) ELSE iso_date(s, i)

TimeComponent(ext, s, i) == IF ext THEN iso_time_extended(s, i) ELSE iso_time(s, i)

TzComponent(ext, s, i) == IF ext THEN iso_tz_extended(s, i) ELSE iso_tz(s, i)

\* '^' date '(T' time tz '?)?' '$'
DateTimePattern(ext, s) ==
    LET n == Len(s) + 1
    IN  UNION {
          (IF d.end = n THEN {d.g @@ NoTime @@ NoTz} ELSE {})
          \cup
          (IF Lit(s, d.end, "T")
           THEN UNION {
                  (IF t.end = n THEN {d.g @@ t.g @@ NoTz} ELSE {})
                  \cup {d.g @@ t.g @@ z.g
                          : z \in {x \in TzComponent(ext, s, t.end) : x.end = n}}
                  : t \in TimeComponent(ext, s, d.end + 1)}
           ELSE {})
          : d \in DateComponent(ext, s, 1)}

\* '^' 'T?' time tz '?' '$'
TimePattern(ext, s) ==
    LET n == Len(s) + 1
        From(i) == UNION {
                     (IF t.end = n THEN {t.g @@ NoTz} ELSE {})
                     \cup {t.g @@ z.g
                             : z \in {x \in TzComponent(ext, s, t.end) : x.end = n}}
                     : t \in TimeComponent(ext, s, i)}
    IN  From(1) \cup (IF Lit(s, 1, "T") THEN From(2) ELSE {})

\* '^' 'T?' tz '?' '$'
TzPattern(s) ==
    LET n == Len(s) + 1
        From(i) == (IF i = n THEN {NoTzGlob} ELSE {})
                   \cup {z.g : z \in {x \in iso_tz_glob(s, i) : x.end = n}}
    IN  From(1) \cup (IF Lit(s, 1, "T") THEN From(2) ELSE {})

PatternNames == {"dt_ext", "dt", "time_ext", "time", "tz"}

PATTERNS(name, s) ==
    CASE name = "dt_ext" -> DateTimePattern(TRUE, s)
      [] name = "dt" -> DateTimePattern(FALSE, s)
      [] name = "time_ext" -> TimePattern(TRUE, s)
      [] name = "time" -> TimePattern(FALSE, s)
      [] name = "tz" -> TzPattern(s)

\* a match object, of the group dictionaries found: None when there is none
MatchObject(name, found) ==
    IF found = {} THEN None
    ELSE [pattern |-> name, groupdict |-> CHOOSE g \in found : TRUE]

\* PATTERNS[name].match(s)
Match(name, s) == MatchObject(name, PATTERNS(name, s))

\* m.get(k, None)
Get(m, k) == IF k \in DOMAIN m THEN m[k] ELSE None

----------------------------------------------------------------------------
(* The proleptic Gregorian calendar of datetime                            *)

MAXYEAR == 9999

IsLeap(y) == y % 4 = 0 /\ (y % 100 # 0 \/ y % 400 = 0)

DaysInYear(y) == IF IsLeap(y) THEN 366 ELSE 365

DaysInMonth(y, m) ==
    IF m = 2 THEN (IF IsLeap(y) THEN 29 ELSE 28)
    ELSE IF m \in {4, 6, 9, 11} THEN 30 ELSE 31

RECURSIVE DaysBeforeMonth(_, _)
DaysBeforeMonth(y, m) ==
    IF m = 1 THEN 0 ELSE DaysBeforeMonth(y, m - 1) + DaysInMonth(y, m - 1)

DaysBeforeYear(y) ==
    (y - 1) * 365 + (y - 1) \div 4 - (y - 1) \div 100 + (y - 1) \div 400

ValidDate(y, m, d) ==
    y \in 1..MAXYEAR /\ m \in 1..12 /\ d \in 1..DaysInMonth(y, m)

\* date(y, m, d).toordinal(): 1 is 0001-01-01
ToOrdinal(y, m, d) == DaysBeforeYear(y) + DaysBeforeMonth(y, m) + d

MaxOrdinal == ToOrdinal(MAXYEAR, 12, 31)

\* the date of the day r (1 is January 1) of the year y
DayOfYear(y, r) ==
    LET m == CHOOSE mm \in 1..12 :
                 DaysBeforeMonth(y, mm) < r
                 /\ r <= DaysBeforeMonth(y, mm) + DaysInMonth(y, mm)
    IN  [year |-> y, month |-> m, day |-> r - DaysBeforeMonth(y, m)]

\* the year of the ordinal n
YearOfOrdinal(n) ==
    CHOOSE y \in (n \div 366)..(n \div 365 + 1) :
        y >= 1 /\ DaysBeforeYear(y) < n /\ n <= DaysBeforeYear(y + 1)

DateInYear(y, n) == DayOfYear(y, n - DaysBeforeYear(y))

\* date.fromordinal(n), for n in 1..MaxOrdinal
FromOrdinal(n) == DateInYear(YearOfOrdinal(n), n)

\* date(y, m, d).weekday(): Monday is 0
Weekday(y, m, d) == (ToOrdinal(y, m, d) + 6) % 7

----------------------------------------------------------------------------
(* datetime.datetime.strptime on the format and the values parse builds    *)

\* params: the value handed to each strptime directive, None when the
\* directive is not used
Params(m, ref) ==
    LET fromNow == Get(m, "date") = None
        week_day == Get(m, "week_day")
    IN  [Y |-> IF Get(m, "year") # None THEN Get(m, "year")
               ELSE IF fromNow THEN Str(ref.year) ELSE None,
         m |-> IF Get(m, "month") # None THEN Get(m, "month")
               ELSE IF fromNow THEN Str(ref.month) ELSE None,
         d |-> IF Get(m, "day") # None THEN Get(m, "day")
               ELSE IF fromNow THEN Str(ref.day) ELSE None,
         H |-> Get(m, "hour"),
         M |-> Get(m, "min"),
         S |-> Get(m, "sec"),
         j |-> Get(m, "day_ord"),
         W |-> IF Get(m, "week") # None THEN Str(int(Get(m, "week")) - 1)
               ELSE None,
         w |-> IF week_day = <<"7">> THEN Str(0) ELSE week_day]

\* the value v, between two separators, matches the regular expression of
\* the directive k
DirectiveMatches(k, v) ==
    LET n == Len(v)
        digits == n >= 1 /\ Dig(v, 1, n)
    IN  CASE k = "Y" -> digits /\ n = 4
          [] k = "m" -> digits /\ n <= 2 /\ int(v) \in 1..12
          [] k = "d" -> digits /\ n <= 2 /\ int(v) \in 1..31
          [] k = "H" -> digits /\ n <= 2 /\ int(v) \in 0..23
          [] k = "M" -> digits /\ n <= 2 /\ int(v) \in 0..59
          [] k = "S" -> digits /\ n <= 2 /\ int(v) \in 0..61
          [] k = "j" -> digits /\ n <= 3 /\ int(v) \in 1..366
          [] k = "W" -> digits /\ n <= 2 /\ int(v) \in 0..53
          [] k = "w" -> digits /\ n = 1 /\ int(v) \in 0..6

\* _strptime._calc_julian_from_U_or_W for %W: the day of the year of the
\* weekday day_of_week (Monday 0) of the week week_of_year, where week 1
\* starts on the year's first Monday and week 0 holds the days before it
CalcJulianFromW(year, week_of_year, day_of_week) ==
    LET first_weekday == Weekday(year, 1, 1)
        week_0_length == (7 - first_weekday) % 7
    IN  IF week_of_year = 0 THEN 1 + day_of_week - first_weekday
        ELSE 1 + week_0_length + 7 * (week_of_year - 1) + day_of_week

ValueError == [status |-> "raised", error |-> "ValueError"]

Returned(d) == [status |-> "ok", value |-> d]

\* int(v), or the directive's default when it is not used
IntOr(v, default) == IF v # None THEN int(v) ELSE default

\* date.fromordinal(ordinal), which raises outside 1..MaxOrdinal
OrdinalDate(ordinal) ==
    IF ordinal \in 1..MaxOrdinal THEN Returned(FromOrdinal(ordinal))
    ELSE ValueError

\* the year, month and day strptime composes: the day of the year julian
\* decides them when there is one
DateFromFields(year, month, day, hasJulian, julian) ==
    IF year < 1 THEN ValueError
    ELSE IF hasJulian THEN OrdinalDate((julian - 1) + ToOrdinal(year, 1, 1))
    ELSE IF ValidDate(year, month, day)
    THEN Returned([year |-> year, month |-> month, day |-> day])
    ELSE ValueError

\* %j, or else %W with %w, give the day of the year; %W without %w is read
\* and not used.  %w counts from Sunday 0, weekday() from Monday 0
StrptimeDate(p) ==
    DateFromFields(int(p.Y), IntOr(p.m, 1), IntOr(p.d, 1),
                   p.j # None \/ (p.W # None /\ p.w # None),
                   IF p.j # None THEN int(p.j)
                   ELSE CalcJulianFromW(int(p.Y), int(p.W),
                                        IF int(p.w) = 0 THEN 6 ELSE int(p.w) - 1))

\* datetime(year, month, day, hour, minute, second)
Datetime(ymd, hour, minute, second) ==
    IF ymd.status # "ok" \/ second > 59 THEN ValueError
    ELSE Returned([year |-> ymd.value.year, month |-> ymd.value.month,
                   day |-> ymd.value.day, hour |-> hour, minute |-> minute,
                   second |-> second, microsecond |-> 0])

strptime(p) ==
    IF \E k \in {x \in DOMAIN p : p[x] # None} : ~DirectiveMatches(k, p[k])
    THEN ValueError
    ELSE Datetime(StrptimeDate(p), IntOr(p.H, 0), IntOr(p.M, 0), IntOr(p.S, 0))

----------------------------------------------------------------------------
(* Timezones.  Offsets are in minutes.                                     *)

\* int(direction + digits)
SignedInt(direction, digits) ==
    IF direction = <<"-">> THEN -int(digits) ELSE int(digits)

\* Offset, with the minutes read without the direction
OffsetUnsignedMinutes(g) ==
    60 * (IF g.hour # None THEN SignedInt(g.direction, g.hour) ELSE 0)
    + (IF g.min # None THEN int(g.min) ELSE 0)

\* datetime.timedelta(hours=..., minutes=...) of the groups of a match of
\* the timezone pattern
Offset(g) ==
    60 * (IF g.hour # None THEN SignedInt(g.direction, g.hour) ELSE 0)
    + (IF g.min # None THEN SignedInt(g.direction, g.min) ELSE 0)

TimeZoneOfMatch(name, mt) ==
    IF mt = None THEN ValueError
    ELSE Returned([cls |-> "TimeZone", offset |-> Offset(mt.groupdict),
                   name |-> name])

TimeZone(name) ==
    IF name = <<"Z">>
    THEN Returned([cls |-> "TimeZone", offset |-> 0, name |-> name])
    ELSE TimeZoneOfMatch(name, Match("tz", name))

STDOFFSET == 60

DSTOFFSET == 120

TZ_LOCAL == [cls |-> "LocalTimezone"]

\* the host's daylight-saving rule, which time.mktime and time.localtime
\* apply to the wall-clock fields of dt: here the months April to September
isdst(dt) == dt.month \in 4..9

utcoffset(dt) ==
    IF dt.tzinfo.cls = "TimeZone" THEN dt.tzinfo.offset
    ELSE IF isdst(dt) THEN DSTOFFSET ELSE STDOFFSET

----------------------------------------------------------------------------
(* Sub-second digits                                                       *)

\* the precision of decimal's default context, which rounds half to even
DecimalPrec == 28

\* int(Decimal('.' + sub_sec) * 1000000): the product is exact while sub_sec
\* has at most DecimalPrec digits after its leading zeros; a longer one is
\* rounded to DecimalPrec significant digits, and int() then truncates
Microseconds(sub_sec) ==
    LET n == Len(sub_sec)
        digit(k) == IF k <= n THEN DigitVal(sub_sec[k]) ELSE 0
        lead == CHOOSE k \in 0..n : /\ \A j \in 1..k : digit(j) = 0
                                    /\ k = n \/ digit(k + 1) # 0
        floor6 == 100000 * digit(1) + 10000 * digit(2) + 1000 * digit(3)
                  + 100 * digit(4) + 10 * digit(5) + digit(6)
        last == lead + DecimalPrec
        roundUp == \/ digit(last + 1) > 5
                   \/ /\ digit(last + 1) = 5
                      /\ \/ \E k \in (last + 2)..n : digit(k) # 0
                         \/ digit(last) % 2 = 1
        carry == n > last /\ roundUp /\ \A k \in 7..last : digit(k) = 9
    IN  IF carry THEN floor6 + 1 ELSE floor6

OverflowError == [status |-> "raised", error |-> "OverflowError"]

\* the datetime d moved to the date ymd, sod seconds after midnight
Moved(d, ymd, sod, microsecond) ==
    Returned([d EXCEPT !.year = ymd.year, !.month = ymd.month,
                       !.day = ymd.day, !.hour = sod \div 3600,
                       !.minute = (sod % 3600) \div 60, !.second = sod % 60,
                       !.microsecond = microsecond])

\* d + a timedelta that brings d to secs seconds after d's midnight
Normalized(d, ordinal, secs, microsecond) ==
    IF ordinal + secs \div 86400 > MaxOrdinal THEN OverflowError
    ELSE Moved(d, FromOrdinal(ordinal + secs \div 86400), secs % 86400,
               microsecond)

\* d + datetime.timedelta(microseconds=us)
AddMicroseconds(d, us) ==
    Normalized(d, ToOrdinal(d.year, d.month, d.day),
               3600 * d.hour + 60 * d.minute + d.second
               + (d.microsecond + us) \div 1000000,
               (d.microsecond + us) % 1000000)

----------------------------------------------------------------------------
(* parse, after the loop has found a match: the fields, strptime, the      *)
(* timezone and the sub-second digits                                      *)

\* TimeZone(m['tz']), or the local machine's timezone when no timezone is
\* given
TzInfo(tz) == IF tz # None THEN TimeZone(tz) ELSE Returned(TZ_LOCAL)

\* d + the microseconds of the sub-second digits, when there are any
AddSubSec(d, sub_sec) ==
    IF sub_sec # None THEN AddMicroseconds(d, Microseconds(sub_sec))
    ELSE Returned(d)

\* d.replace(tzinfo=...), then the sub-second digits; d and tz are what
\* strptime and TimeZone gave, or the error they raised
Replace(d, tz, sub_sec) ==
    IF d.status # "ok" THEN d
    ELSE IF tz.status # "ok" THEN tz
    ELSE AddSubSec([year |-> d.value.year, month |-> d.value.month,
                    day |-> d.value.day, hour |-> d.value.hour,
                    minute |-> d.value.minute, second |-> d.value.second,
                    microsecond |-> d.value.microsecond,
                    tzinfo |-> tz.value],
                   sub_sec)

Compose(m, ref) ==
    Replace(strptime(Params(m, ref)), TzInfo(Get(m, "tz")), Get(m, "sub_sec"))

Unparsable == [status |-> "raised", error |-> "Unparsable date"]

----------------------------------------------------------------------------
(* The inputs of the model                                                 *)

\* the string str as a sequence of characters
Chars(str) == [k \in 1..Len(str) |-> SubSeq(str, k, k)]

D2(n) == <<DigitChars[(n \div 10) + 1], DigitChars[(n % 10) + 1]>>

D4(n) == D2(n \div 100) \o D2(n % 100)

Rep(c, k) == [j \in 1..k |-> c]

\* the longest run of nines among the sub-second tokens
MaxNines == 29

DateInputs ==
    {Chars(str) : str \in
        {"0000", "1230", "1997", "2004", "1997-07", "199707", "1997-13",
         "199713", "1997-07-31", "19970731", "2004-02-29", "20040229",
         "1997-02-29", "19970229", "0001-01-01", "00010101",
         "1997-206", "1997206", "1997-366", "1997366", "1997-000",
         "1997T19", "1997-07-16T19:20", "19970716T1920",
         "1997-07-16T19:20:30", "19970716T192030"}}

WeekYears == {2004, 2007, 2010}

WeekInputs ==
    UNION {{D4(y) \o Chars("-W") \o D2(w), D4(y) \o Chars("W") \o D2(w)}
           \cup UNION {{D4(y) \o Chars("-W") \o D2(w) \o <<"-", DigitChars[d + 1]>>,
                        D4(y) \o Chars("W") \o D2(w) \o <<DigitChars[d + 1]>>}
                       : d \in {1, 3, 7}}
           : y \in WeekYears, w \in {1, 2, 45, 53}}
    \cup {Chars(str) : str \in {"2004-W00-1", "2004W541", "2004-W45-8",
                                 "2004-W45-0"}}

TimeInputs ==
    {Chars(str) : str \in
        {"19", "T19", "T19:20", "T1920", "T19:20:30", "T192030", "192030",
         "T19:20:30,4", "T1920304", "T19:20:30.423", "T25", "T19:60",
         "T19:20:60", "T19+0100", "T19+01:00", "T19+01", "T19:20:30Z",
         "T192030Z", "T1920304+0100", "T19:20:30,4+01:00"}}

SubSecTokens ==
    {Rep("9", k) : k \in 1..MaxNines}
    \cup {<<"0">> \o Rep("9", DecimalPrec) \o <<"5">>,
          Rep("9", DecimalPrec) \o <<"5">>, Rep("9", DecimalPrec) \o <<"4">>,
          Rep("8", DecimalPrec) \o <<"5">>,
          Rep("0", 6) \o Rep("9", DecimalPrec) \o <<"5">>}
    \cup {Chars(str) : str \in {"0", "000000", "0000001", "123456789"}}

SubSecInputs ==
    {Chars("T23:59:59,") \o tok : tok \in SubSecTokens}
    \cup {Chars("1997-12-31T23:59:59.") \o Rep("9", MaxNines),
          Chars("19970716T192030") \o Rep("9", MaxNines),
          Chars("9999-12-31T23:59:59.") \o Rep("9", MaxNines)}

TzHours == {0, 1, 5, 14, 99}

TzMinutes == {0, 30, 59, 99}

OffsetInputs ==
    UNION {{Chars("T19:20") \o <<sign>> \o D2(h) \o <<":">> \o D2(mi),
            Chars("T1920") \o <<sign>> \o D2(h) \o D2(mi),
            Chars("1997-07-16T19:20:30") \o <<sign>> \o D2(h) \o <<":">> \o D2(mi),
            Chars("19970716T192030") \o <<sign>> \o D2(h) \o D2(mi)}
           : sign \in {"+", "-"}, h \in TzHours, mi \in TzMinutes}

TzOnlyInputs ==
    {Chars(str) : str \in
        {"", "T", "Z", "TZ", "+05:30", "+0530", "-00:30", "T+05:30", "+05",
         "-23", "+99:99", "+00:00"}}

OtherInputs ==
    {Chars(str) : str \in
        {"not-a-date", "199", "1997-", "T19:", "1997-07-16T", "+5",
         "1997-07-16T19:20:30+0100", "19970716T1920+01:00", "1997-7-16",
         "T19:20:30,", "ZT"}}

Inputs == DateInputs \cup WeekInputs \cup TimeInputs \cup SubSecInputs
          \cup OffsetInputs \cup TzOnlyInputs \cup OtherInputs

\* the reference of the doctests, and one in a summer
References ==
    {[year |-> 1950, month |-> 2, day |-> 27, hour |-> 14, minute |-> 17,
      second |-> 22, microsecond |-> 110, tzinfo |-> TZ_LOCAL],
     [year |-> 2024, month |-> 7, day |-> 4, hour |-> 9, minute |-> 8,
      second |-> 7, microsecond |-> 6, tzinfo |-> TZ_LOCAL]}

\* a reference whose year has three digits
EarlyReference ==
    [year |-> 999, month |-> 12, day |-> 31, hour |-> 13, minute |-> 16,
     second |-> 21, microsecond |-> 999999, tzinfo |-> TZ_LOCAL]

----------------------------------------------------------------------------
(* parse(date, now) as a state machine.  PATTERNS is a dict, and the loop  *)
(* visits its values in the dict's order, which the language leaves open:  *)
(* each iteration takes any pattern not yet visited.                       *)

NoResult == [status |-> "none"]

\* the entry of parse(date, now), with now among refs
Start(refs) ==
    /\ date \in Inputs
    /\ now \in refs
    /\ pc = "loop"
    /\ remaining = PatternNames
    /\ matches = None
    /\ result = NoResult

Init == Start(References)

InitAnyReference == Start(References \cup {EarlyReference})

\* an iteration whose pattern matches: break
LoopBreak(p) ==
    /\ pc = "loop"
    /\ p \in remaining
    /\ matches' = Match(p, date)
    /\ matches' # None
    /\ remaining' = remaining \ {p}
    /\ pc' = "matched"
    /\ UNCHANGED <<date, now, result>>

\* an iteration whose pattern does not match
LoopContinue(p) ==
    /\ pc = "loop"
    /\ p \in remaining
    /\ Match(p, date) = None
    /\ matches' = None
    /\ remaining' = remaining \ {p}
    /\ UNCHANGED <<date, now, pc, result>>

\* the loop ran out of patterns: matches is None
RaiseUnparsable ==
    /\ pc = "loop"
    /\ remaining = {}
    /\ result' = Unparsable
    /\ pc' = "error"
    /\ UNCHANGED <<date, now, remaining, matches>>

Return ==
    /\ pc = "matched"
    /\ result' = Compose(matches.groupdict, now)
    /\ result'.status = "ok"
    /\ pc' = "done"
    /\ UNCHANGED <<date, now, remaining, matches>>

Raise ==
    /\ pc = "matched"
    /\ result' = Compose(matches.groupdict, now)
    /\ result'.status = "raised"
    /\ pc' = "error"
    /\ UNCHANGED <<date, now, remaining, matches>>

Next ==
    \/ \E p \in PatternNames : LoopBreak(p)
    \/ \E p \in PatternNames : LoopContinue(p)
    \/ RaiseUnparsable
    \/ Return
    \/ Raise

Spec == Init /\ [][Next]_vars

SpecAnyReference == InitAnyReference /\ [][Next]_vars

----------------------------------------------------------------------------
(* What parse gives when the patterns are tried in the order in which      *)
(* PATTERNS lists them                                                     *)

Precedence == <<"dt_ext", "dt", "time_ext", "time", "tz">>

\* the first of the matches found, None when there is none
First(found) ==
    IF \A k \in 1..Len(found) : found[k] = None THEN None
    ELSE found[CHOOSE k \in 1..Len(found) :
                   found[k] # None /\ \A l \in 1..(k - 1) : found[l] = None]

FirstMatch(s) == First([k \in 1..Len(Precedence) |-> Match(Precedence[k], s)])

OutcomeOf(mt, ref) ==
    IF mt = None THEN Unparsable ELSE Compose(mt.groupdict, ref)

Outcome(s, ref) == OutcomeOf(FirstMatch(s), ref)

----------------------------------------------------------------------------
(* The properties                                                          *)

Ended == pc \in {"done", "error"}

\* the groups of the match parse went on with
Groups == matches.groupdict

\* midnight of the date ymd in the local machine's timezone
Midnight(ymd) ==
    Returned([year |-> ymd.year, month |-> ymd.month, day |-> ymd.day,
              hour |-> 0, minute |-> 0, second |-> 0, microsecond |-> 0,
              tzinfo |-> TZ_LOCAL])

\* ISO 8601 week dates: week 1 is the week, Monday to Sunday, that holds the
\* year's first Thursday, which is the week that holds January 4
IsoWeek1Monday(y) == ToOrdinal(y, 1, 4) - Weekday(y, 1, 4)

IsoWeeks(y) == (IsoWeek1Monday(y + 1) - IsoWeek1Monday(y)) \div 7

IsoDate(y, w, d) == FromOrdinal(IsoWeek1Monday(y) + 7 * (w - 1) + (d - 1))

\* YYYY-MM-DD and YYYYMMDD
ExtendedDate(ymd) ==
    D4(ymd.year) \o <<"-">> \o D2(ymd.month) \o <<"-">> \o D2(ymd.day)

BasicDate(ymd) == D4(ymd.year) \o D2(ymd.month) \o D2(ymd.day)

NotDash(c) == c # "-"

\* C1: whatever the order in which the loop visits the patterns, parse ends
\* with the outcome (the timestamp or the error) of the first pattern, in the
\* order dt_ext, dt, time_ext, time, tz, that matches the input.
C1_OutcomeOfFirstInPrecedence == Ended => result = Outcome(date, now)

\* C1, the part on retries: once a pattern has matched, the loop is over; no
\* other pattern is tried, whether composing the fields succeeds or raises.
C1_NoRetryAfterMatch ==
    [][pc # "loop" => remaining' = remaining /\ matches' = matches]_vars

\* C2: the input is a week date YYYY-Www-D or YYYYWwwD of a week and a weekday
\* that the ISO year has; parse returns what it returns for the YYYY-MM-DD
\* string of the same day.
C2_WeekDateIsCalendarDate ==
    (/\ Ended
     /\ matches # None
     /\ Get(Groups, "week_day") # None
     /\ int(Groups.week) \in 1..IsoWeeks(int(Groups.year))
     /\ int(Groups.week_day) \in 1..7)
    => result = Outcome(ExtendedDate(IsoDate(int(Groups.year), int(Groups.week),
                                             int(Groups.week_day))), now)

\* C3: the input is four digits Y; parse succeeds and returns January 1 of
\* the year Y at 00:00:00.000000 in the local timezone, whose offset is the
\* one in effect on that date.
C3_YearOnly ==
    (Ended /\ Len(date) = 4 /\ Dig(date, 1, 4))
    => /\ result = Midnight([year |-> int(date), month |-> 1, day |-> 1])
       /\ utcoffset(result.value)
            = utcoffset(Midnight([year |-> int(date), month |-> 1,
                                  day |-> 1]).value)

\* C4: the input is YYYY-MM-DD or YYYYMMDD of a day of the calendar, or
\* YYYY-MM or YYYYMM of a month; parse succeeds, and the extended and the
\* basic form give the same timestamp: midnight of that day (of the first of
\* that month) in the local timezone.
C4_ExtendedEqualsBasic ==
    LET s == SelectSeq(date, NotDash)
        ymd == [year |-> int(SubSeq(s, 1, 4)), month |-> int(SubSeq(s, 5, 6)),
                day |-> IF Len(s) = 8 THEN int(SubSeq(s, 7, 8)) ELSE 1]
        forms == IF Len(s) = 8 THEN {ExtendedDate(ymd), BasicDate(ymd)}
                 ELSE {D4(ymd.year) \o <<"-">> \o D2(ymd.month),
                       D4(ymd.year) \o D2(ymd.month)}
    IN  (/\ Ended
         /\ Len(s) \in {6, 8}
         /\ Dig(s, 1, Len(s))
         /\ ValidDate(ymd.year, ymd.month, ymd.day)
         /\ date \in forms)
        => result = Midnight(ymd)

\* C5: parse went on with the match of a time-only pattern and returned; the
\* result has the year, month and day of the reference and the hour, minute
\* and second written in the input, 0 for each one the input leaves out.
C5_TimeOnly ==
    (pc = "done" /\ matches.pattern \in {"time_ext", "time"})
    => /\ result.value.year = now.year
       /\ result.value.month = now.month
       /\ result.value.day = now.day
       /\ result.value.hour = int(Groups.hour)
       /\ result.value.minute = (IF Groups.min = None THEN 0 ELSE int(Groups.min))
       /\ result.value.second = (IF Groups.sec = None THEN 0 ELSE int(Groups.sec))

\* floor(0.d1..dn * 1000000): the first six digits of the token
FloorMicroseconds(tok) == int(SubSeq(tok \o Rep("0", 6), 1, 6))

\* C6: the input has sub-second digits and parse returned; the result is the
\* timestamp composed without them, with floor(0.d1..dn * 1000000) as its
\* microseconds: the same date, hour, minute and second.
C6_SubSecondFloor ==
    (pc = "done" /\ Get(Groups, "sub_sec") # None)
    => result.value
         = [Compose([Groups EXCEPT !.sub_sec = None], now).value
              EXCEPT !.microsecond = FloorMicroseconds(Groups.sub_sec)]

\* C7: the input is a date-time or a time that ends with a timezone and parse
\* returned; a fragment [+-]HH:MM or [+-]HHMM gives the result the offset
\* sign * (60 * HH + MM) minutes, the sign applying to the minutes too and the
\* colon changing nothing, and Z gives it the offset 0.
C7_OffsetOfFragment ==
    (pc = "done" /\ matches.pattern # "tz" /\ Groups.tz # None)
    => LET n == Len(date)
           colon == date[n - 2] = ":" /\ date[n - 5] \in {"+", "-"}
           plain == ~colon /\ date[n - 4] \in {"+", "-"}
           at == IF colon THEN n - 5 ELSE n - 4
           sign == IF date[at] = "-" THEN -1 ELSE 1
           minutes == 60 * int(SubSeq(date, at + 1, at + 2))
                      + int(SubSeq(date, n - 1, n))
       IN  /\ result.value.tzinfo.cls = "TimeZone"
           /\ date[n] = "Z" => result.value.tzinfo.offset = 0
           /\ (colon \/ plain) => result.value.tzinfo.offset = sign * minutes

\* C7's case: a negative offset with minutes, attached to a result
C7_Witness ==
    /\ pc = "done"
    /\ matches.pattern \in {"dt_ext", "dt", "time_ext", "time"}
    /\ Groups.tz_direction = <<"-">>
    /\ Groups.tz_min # None
    /\ int(Groups.tz_min) > 0
    /\ result.value.tzinfo.offset < 0

\* C8: parse went on with the match of the timezone-only pattern and
\* returned; the result is the reference's year, month and day at 00:00:00,
\* with the timezone of the fragment, or the local one when there is none.
C8_TzOnly ==
    (pc = "done" /\ matches.pattern = "tz")
    => /\ result.value.year = now.year
       /\ result.value.month = now.month
       /\ result.value.day = now.day
       /\ result.value.hour = 0
       /\ result.value.minute = 0
       /\ result.value.second = 0
       /\ result.value.tzinfo = TzInfo(Groups.tz).value

\* C9: the input is YYYY-Www or YYYYWww, a week that the ISO year has and no
\* weekday; parse returns midnight of the Monday of that week.
C9_WeekWithoutDay ==
    (/\ Ended
     /\ matches # None
     /\ Get(Groups, "week") # None
     /\ Groups.week_day = None
     /\ Groups.time = None
     /\ int(Groups.week) \in 1..IsoWeeks(int(Groups.year)))
    => result = Midnight(IsoDate(int(Groups.year), int(Groups.week), 1))

\* C10: parse raises "Unparsable date" exactly when none of the five patterns
\* matches the input; the empty string and "T" match the timezone-only
\* pattern, and parse returns for them the reference's year, month and day at
\* 00:00:00 in the local timezone.
C10_UnparsableOnlyWithoutMatch ==
    Ended =>
      /\ result = Unparsable <=> \A p \in PatternNames : Match(p, date) = None
      /\ date \in {<<>>, <<"T">>}
           => result = Midnight([year |-> now.year, month |-> now.month,
                                 day |-> now.day])

====
